---------------------------- MODULE Spec2Model ----------------------------
(***************************************************************************)
(* A model of wikisubmission-sdk: the query classifier                     *)
(* (QuranV1Methods.parseQuery), the resilient request executor             *)
(* (WikiSubmissionAPIClient.executeRequest, with its cache and its table   *)
(* of in-flight requests) and the client facade (QuranV1APIClient.query    *)
(* and batchQuery).                                                        *)
(*                                                                         *)
(* JavaScript strings that the code takes apart (query strings) are        *)
(* sequences of one-character strings; strings that the code only builds   *)
(* and compares (messages, cache keys) are TLA+ strings.  A JavaScript     *)
(* number that may be NaN is <<>> (NaN) or <<n>>; the same shape stands    *)
(* for an optional field of a configuration object (<<>> is "not given").  *)
(***************************************************************************)
EXTENDS Integers, Sequences, FiniteSets, TLC

(***************************************************************************)
(* Bounds of the model.                                                    *)
(***************************************************************************)
\* The clock runs from 0 to MaxTime; where a single call is followed through
\* all its retries, to MaxRetryTime.
MaxTime == 3
MaxRetryTime == 7
\* The number of query() invocations of one behaviour.
MaxCalls == 2
\* The longest input list handed to batchQuery, and the largest concurrency.
MaxBatch == 3
\* The last instant of a behaviour with a batchQuery, or with cancellations.
MaxBatchTime == 1
\* The number of cancelAllRequests() and destroy() calls of one behaviour.
MaxOps == 2
\* The index table holds VersesPerChapter verses of each chapter.
VersesPerChapter == 3

(***************************************************************************)
(* Characters and strings.                                                 *)
(***************************************************************************)
DigitChars == <<"0", "1", "2", "3", "4", "5", "6", "7", "8", "9">>

LowerChars ==
  <<"a", "b", "c", "d", "e", "f", "g", "h", "i", "j", "k", "l", "m",
    "n", "o", "p", "q", "r", "s", "t", "u", "v", "w", "x", "y", "z">>

UpperChars ==
  <<"A", "B", "C", "D", "E", "F", "G", "H", "I", "J", "K", "L", "M",
    "N", "O", "P", "Q", "R", "S", "T", "U", "V", "W", "X", "Y", "Z">>

Range(s) == {s[i] : i \in DOMAIN s}

IsDigit(c) == c \in Range(DigitChars)

IsLetter(c) == c \in Range(LowerChars) \cup Range(UpperChars)

IsSpace(c) == c \in {" ", "\t", "\n"}

DigitVal(c) == (CHOOSE i \in DOMAIN DigitChars : DigitChars[i] = c) - 1

\* String.prototype.toLowerCase, one character.
LowerChar(c) ==
  IF c \in Range(UpperChars)
    THEN LowerChars[CHOOSE i \in DOMAIN UpperChars : UpperChars[i] = c]
    ELSE c

toLowerCase(s) == [i \in DOMAIN s |-> LowerChar(s[i])]

\* The characters of a TLA+ string literal cannot be taken apart, so the
\* reserved words of the classifier are spelled out.
ChapterColon == <<"c", "h", "a", "p", "t", "e", "r", ":">>
WordRandom == <<"r", "a", "n", "d", "o", "m">>
WordChapter == <<"c", "h", "a", "p", "t", "e", "r">>
WordVerse == <<"v", "e", "r", "s", "e">>

\* A sequence of characters as one string.
RECURSIVE Str(_)
Str(s) == IF s = <<>> THEN "" ELSE Head(s) \o Str(Tail(s))

\* Array.prototype.join on an array of strings.
RECURSIVE join(_, _)
join(items, sep) ==
  IF items = <<>> THEN ""
  ELSE IF Len(items) = 1 THEN items[1]
  ELSE items[1] \o sep \o join(Tail(items), sep)

startsWith(s, p) == Len(s) >= Len(p) /\ SubSeq(s, 1, Len(p)) = p

endsWith(s, p) == Len(s) >= Len(p) /\ SubSeq(s, Len(s) - Len(p) + 1, Len(s)) = p

\* The 1-based positions at which p occurs in s.
Occurrences(s, p) ==
  {i \in 1..(Len(s) - Len(p) + 1) : SubSeq(s, i, i + Len(p) - 1) = p}

includes(s, p) == Len(p) = 0 \/ Occurrences(s, p) # {}

Min(S) == CHOOSE x \in S : \A y \in S : x <= y

\* String.prototype.split with a non-empty separator: the array of parts.
RECURSIVE split(_, _)
split(s, sep) ==
  IF Occurrences(s, sep) = {} THEN <<s>>
  ELSE LET i == Min(Occurrences(s, sep))
       IN  <<SubSeq(s, 1, i - 1)>> \o split(SubSeq(s, i + Len(sep), Len(s)), sep)

RECURSIVE trimStart(_)
trimStart(s) == IF s # <<>> /\ IsSpace(Head(s)) THEN trimStart(Tail(s)) ELSE s

RECURSIVE trimEnd(_)
trimEnd(s) ==
  IF s # <<>> /\ IsSpace(s[Len(s)]) THEN trimEnd(SubSeq(s, 1, Len(s) - 1)) ELSE s

trim(s) == trimEnd(trimStart(s))

AllDigits(s) == \A i \in DOMAIN s : IsDigit(s[i])

\* The value of a non-empty sequence of decimal digits.
RECURSIVE DigitsValue(_)
DigitsValue(s) ==
  IF s = <<>> THEN 0
  ELSE 10 * DigitsValue(SubSeq(s, 1, Len(s) - 1)) + DigitVal(s[Len(s)])

\* The decimal rendering of a natural number, as a template literal gives it.
RECURSIVE NumToChars(_)
NumToChars(n) ==
  IF n < 10 THEN <<DigitChars[n + 1]>>
  ELSE NumToChars(n \div 10) \o <<DigitChars[(n % 10) + 1]>>

\* The longest prefix of s made of digits.
RECURSIVE DigitPrefix(_)
DigitPrefix(s) ==
  IF s # <<>> /\ IsDigit(Head(s)) THEN <<Head(s)>> \o DigitPrefix(Tail(s)) ELSE <<>>

NaN == <<>>

IsSign(c) == c \in {"+", "-"}

Signed(sign, n) == IF sign = "-" THEN 0 - n ELSE n

\* parseInt(s, 10): leading white space is skipped, a sign is read, then the
\* longest run of digits; what follows the digits is ignored; no digit: NaN.
parseInt(s) ==
  LET t == trimStart(s)
      body == IF t # <<>> /\ IsSign(Head(t)) THEN Tail(t) ELSE t
      digits == DigitPrefix(body)
  IN  IF digits = <<>> THEN NaN
      ELSE <<Signed(Head(t), DigitsValue(digits))>>

\* Number(s) of a defined string: white space is trimmed, the empty string
\* is 0, a signed run of digits is its value, anything else is NaN.  (Only
\* decimal integer literals are spelled with the characters of the modelled
\* queries.)
Number(s) ==
  LET t == trim(s)
      body == IF t # <<>> /\ IsSign(Head(t)) THEN Tail(t) ELSE t
  IN  IF t = <<>> THEN <<0>>
      ELSE IF body # <<>> /\ AllDigits(body)
        THEN <<Signed(Head(t), DigitsValue(body))>>
        ELSE NaN

\* Number(parts[i]) where parts[i] may be undefined: Number(undefined) is NaN.
NumberAt(parts, i) == IF i \in DOMAIN parts THEN Number(parts[i]) ELSE NaN


(***************************************************************************)
(* The index table (data/verse-indices): one record per verse, in reading  *)
(* order, the ordinals contiguous from 1, the chapters 1..LastChapter.     *)
(***************************************************************************)
\* The largest chapter number the classifier accepts.
LastChapter == 114

VerseIndices ==
  [k \in 1..(LastChapter * VersesPerChapter) |->
     [chapter |-> ((k - 1) \div VersesPerChapter) + 1,
      verse |-> ((k - 1) % VersesPerChapter) + 1,
      verse_index |-> k]]

(***************************************************************************)
(* QuranV1Schemas.QueryOptions.  An options object is the sequence of its  *)
(* <<key, value>> pairs in insertion order, the keys distinct; a value is  *)
(* [t |-> its JavaScript type, items |-> its text], an array holding one   *)
(* item per element.                                                       *)
(***************************************************************************)
StringValue(s) == [t |-> "string", items |-> <<s>>]

BooleanValue(b) == [t |-> "boolean", items |-> <<IF b THEN "true" ELSE "false">>]

ArrayValue(items) == [t |-> "array", items |-> items]

SupportedLanguages ==
  {"english", "turkish", "french", "german", "bahasa", "persian", "tamil",
   "swedish", "russian"}

\* The shape of the schema: each key with the values it admits and its default.
QueryOptionsShape ==
  << [key |-> "sort_results", t |-> "string",
      enum |-> {"verse_index", "revelation_order"},
      default |-> StringValue("verse_index")],
     [key |-> "normalize_god_casing", t |-> "boolean", enum |-> {},
      default |-> BooleanValue(FALSE)],
     [key |-> "include_word_by_word", t |-> "boolean", enum |-> {},
      default |-> BooleanValue(FALSE)],
     [key |-> "include_language", t |-> "string", enum |-> {},
      default |-> StringValue("none")],
     [key |-> "search_strategy", t |-> "string", enum |-> {"exact", "fuzzy"},
      default |-> StringValue("fuzzy")],
     [key |-> "search_language", t |-> "string", enum |-> SupportedLanguages,
      default |-> StringValue("english")],
     [key |-> "search_case_sensitive", t |-> "boolean", enum |-> {},
      default |-> BooleanValue(FALSE)],
     [key |-> "search_ignore_commentary", t |-> "boolean", enum |-> {},
      default |-> BooleanValue(FALSE)],
     [key |-> "search_apply_highlight", t |-> "boolean", enum |-> {},
      default |-> BooleanValue(FALSE)] >>

OptionKeys(options) == {options[i][1] : i \in DOMAIN options}

OptionValue(options, key) ==
  options[CHOOSE i \in DOMAIN options : options[i][1] = key][2]

\* Whether a value passes the schema's field f.
FieldAccepts(f, value) ==
  /\ value.t = f.t
  /\ f.enum # {} => value.items[1] \in f.enum

\* QueryOptions.parse succeeds: every key of the shape that is given holds a
\* value of its type; the other keys pass through unchecked.
QueryOptionsParseOk(options) ==
  \A i \in DOMAIN QueryOptionsShape :
    LET f == QueryOptionsShape[i]
    IN  f.key \in OptionKeys(options) => FieldAccepts(f, OptionValue(options, f.key))

IsShapeKey(pair) == \E i \in DOMAIN QueryOptionsShape : QueryOptionsShape[i].key = pair[1]

IsPassthrough(pair) == ~IsShapeKey(pair)

\* The value QueryOptions.parse returns: the keys of the shape with the given
\* value or the default, then the passed-through keys.
QueryOptionsParse(options) ==
  [i \in DOMAIN QueryOptionsShape |->
     LET f == QueryOptionsShape[i]
     IN  <<f.key, IF f.key \in OptionKeys(options)
                    THEN OptionValue(options, f.key) ELSE f.default>>]
  \o SelectSeq(options, IsPassthrough)

(***************************************************************************)
(* QuranV1Methods: the classifier.  A rule that answers null answers <<>>. *)
(***************************************************************************)
isChapterTypeBareOnly(query) ==
  IF query # <<>> /\ AllDigits(query) /\ DigitsValue(query) \in 1..LastChapter
    THEN SelectSeq(VerseIndices, LAMBDA i : i.chapter = DigitsValue(query))
    ELSE <<>>

isChapterType(query) ==
  IF query = <<>> THEN <<>>
  ELSE
    LET fromPrefix == IF startsWith(query, ChapterColon)
                        THEN split(query, ChapterColon)[2] ELSE <<>>
        possibleCh == IF AllDigits(query) THEN query ELSE fromPrefix
        possibleChNumber == parseInt(possibleCh)
    IN  IF /\ possibleCh # <<>>
           /\ possibleChNumber # NaN
           /\ possibleChNumber[1] >= 1
           /\ possibleChNumber[1] <= LastChapter
          THEN SelectSeq(VerseIndices, LAMBDA i : i.chapter = possibleChNumber[1])
          ELSE <<>>

\* The text `${i.chapter}:${i.verse}`.
VerseId(i) == NumToChars(i.chapter) \o <<":">> \o NumToChars(i.verse)

\* The record found (a sequence of one record) or null (<<>>).
isVerseTypeNumeric(query) ==
  LET parts == split(query, <<":">>)
      hits == SelectSeq(VerseIndices,
                LAMBDA i : /\ NumberAt(parts, 1) = <<i.chapter>>
                           /\ NumberAt(parts, 2) = <<i.verse>>)
  IN  IF Len(parts) # 2 \/ hits = <<>> THEN <<>> ELSE <<hits[1]>>

isVerseType(query) ==
  IF query = <<>> THEN <<>>
  ELSE LET hits == SelectSeq(VerseIndices, LAMBDA i : VerseId(i) = query)
       IN  IF hits = <<>> THEN <<>> ELSE <<hits[1]>>

isVerseRangeTypeExclusive(query) ==
  LET queryCh == NumberAt(split(query, <<":">>), 1)
      queryVer == NumberAt(split(split(query, <<"-">>)[1], <<":">>), 2)
      queryVerEnd == NumberAt(split(query, <<"-">>), 2)
  IN  IF queryCh = NaN \/ queryVer = NaN \/ queryVerEnd = NaN THEN <<>>
      ELSE SelectSeq(VerseIndices,
             LAMBDA i : /\ i.chapter = queryCh[1]
                        /\ i.verse >= queryVer[1]
                        /\ i.verse < queryVerEnd[1])

isVerseRangeType(query) ==
  IF query = <<>> THEN <<>>
  ELSE IF ~includes(query, <<"-">>) \/ endsWith(query, <<"-">>) THEN <<>>
  ELSE
    LET queryCh == NumberAt(split(query, <<":">>), 1)
        queryVer == NumberAt(split(split(query, <<"-">>)[1], <<":">>), 2)
        queryVerEnd == NumberAt(split(query, <<"-">>), 2)
    IN  IF queryCh = NaN \/ queryVer = NaN \/ queryVerEnd = NaN THEN <<>>
        ELSE SelectSeq(VerseIndices,
               LAMBDA i : /\ i.chapter = queryCh[1]
                          /\ i.verse >= queryVer[1]
                          /\ i.verse <= queryVerEnd[1])

\* One component of a comma-separated query: a verse, else a range, else nothing.
ComponentIndices(component) ==
  LET basis == trim(component)
  IN  IF isVerseType(basis) # <<>> THEN isVerseType(basis)
      ELSE isVerseRangeType(basis)

RECURSIVE CollectComponents(_)
CollectComponents(components) ==
  IF components = <<>> THEN <<>>
  ELSE ComponentIndices(Head(components)) \o CollectComponents(Tail(components))

isMultipleVersesTypeByOrdinal(query) ==
  IF ~includes(query, <<",">>) THEN <<>>
  ELSE SelectSeq(VerseIndices,
         LAMBDA i : i \in Range(CollectComponents(split(query, <<",">>))))

isMultipleVersesType(query) ==
  IF query = <<>> THEN <<>>
  ELSE IF ~includes(query, <<",">>) THEN <<>>
  ELSE CollectComponents(split(query, <<",">>))

isRandomChapterType(query) ==
  /\ query # <<>>
  /\ includes(toLowerCase(query), WordRandom)
  /\ includes(toLowerCase(query), WordChapter)

isRandomVerseType(query) ==
  /\ query # <<>>
  /\ includes(toLowerCase(query), WordRandom)
  /\ includes(toLowerCase(query), WordVerse)

\* /^[\d:,\-\s]+$/ on a non-empty string.
OnlyReferenceChars(s) ==
  \A i \in DOMAIN s : IsDigit(s[i]) \/ s[i] \in {":", ",", "-"} \/ IsSpace(s[i])

HasLetter(s) == \E i \in DOMAIN s : IsLetter(s[i])

isSearchType(query) ==
  LET trimmedQuery == trim(query)
  IN  IF query = <<>> \/ trimmedQuery = <<>> THEN FALSE
      ELSE IF OnlyReferenceChars(trimmedQuery) THEN FALSE
      ELSE IF Len(trimmedQuery) <= 2 /\ ~HasLetter(trimmedQuery) THEN FALSE
      ELSE HasLetter(trimmedQuery)

\* The title of a search: a reserved prefix is spelled out, else the query.
generateSearchMetadata(query) ==
  IF startsWith(query, <<"r", "o", "o", "t", ":">>) /\ Len(query) > 5
    THEN "Root: " \o Str(split(query, <<"r", "o", "o", "t", ":">>)[2])
  ELSE IF startsWith(query, ChapterColon) /\ Len(query) > 8
    THEN "Chapter: " \o Str(split(query, ChapterColon)[2])
  ELSE IF startsWith(query, <<"v", "e", "r", "s", "e", ":">>) /\ Len(query) > 6
    THEN "Verse: " \o Str(split(query, <<"v", "e", "r", "s", "e", ":">>)[2])
  ELSE IF startsWith(query, <<"d", "a", "t", "a", ":">>) /\ Len(query) > 5
    THEN "Data: " \o Str(split(query, <<"d", "a", "t", "a", ":">>)[2])
  ELSE Str(query)

\* The two variants of ParsedQuery, as records of one shape.
ValidQueryWithoutIndices(type, query, indices, options, title) ==
  [valid |-> TRUE, type |-> type, query |-> query, indices |-> <<>>,
   options |-> QueryOptionsParse(options), title |-> title, error |-> ""]

ValidQuery(type, query, indices, options, title) ==
  [valid |-> TRUE, type |-> type, query |-> query, indices |-> indices,
   options |-> QueryOptionsParse(options), title |-> title, error |-> ""]

InvalidQuery(error) ==
  [valid |-> FALSE, type |-> "", query |-> <<>>, indices |-> <<>>,
   options |-> <<>>, title |-> "", error |-> error]

\* QueryOptions.parse runs before the try block of parseQuery: when it fails,
\* parseQuery throws the validation error instead of returning.
parseQueryThrows(query, options) == ~QueryOptionsParseOk(options)

\* What parseQuery returns when it returns.  (Nothing in the rules throws on
\* a string, so the catch block, "Internal server error", is never entered.)
parseQueryRandomVerseFirst(query, options) ==
  IF isChapterType(query) # <<>>
    THEN ValidQuery("chapter", query, isChapterType(query), options, "Chapter")
  ELSE IF isVerseType(query) # <<>>
    THEN ValidQuery("verse", query, isVerseType(query), options, "Verse")
  ELSE IF isVerseRangeType(query) # <<>>
    THEN ValidQuery("verse_range", query, isVerseRangeType(query), options, "Verses")
  ELSE IF isMultipleVersesType(query) # <<>>
    THEN ValidQuery("multiple_verses", query, isMultipleVersesType(query), options,
           "Verses")
  ELSE IF isRandomVerseType(query)
    THEN ValidQuery("random_verse", query, <<>>, options, "Random Verse")
  ELSE IF isRandomChapterType(query)
    THEN ValidQuery("random_chapter", query, <<>>, options, "Random Chapter")
  ELSE IF isSearchType(query)
    THEN ValidQuery("search", query, <<>>, options, generateSearchMetadata(query))
  ELSE InvalidQuery("Invalid query")

parseQuery(query, options) ==
  LET chapterResult == isChapterType(query)
      verseResult == isVerseType(query)
      verseRangeResult == isVerseRangeType(query)
      multipleVersesResult == isMultipleVersesType(query)
  IN  IF chapterResult # <<>>
        THEN ValidQuery("chapter", query, chapterResult, options,
               "Chapter " \o Str(NumToChars(chapterResult[1].chapter)))
      ELSE IF verseResult # <<>>
        THEN ValidQuery("verse", query, verseResult, options,
               "Verse " \o Str(VerseId(verseResult[1])))
      ELSE IF verseRangeResult # <<>>
        THEN ValidQuery("verse_range", query, verseRangeResult, options,
               "Verses " \o Str(VerseId(verseRangeResult[1])) \o "-"
                 \o Str(NumToChars(verseRangeResult[Len(verseRangeResult)].verse)))
      ELSE IF multipleVersesResult # <<>>
        THEN ValidQuery("multiple_verses", query, multipleVersesResult, options,
               "Verses " \o Str(SubSeq(query, 1, IF Len(query) < 256 THEN Len(query) ELSE 256)))
      ELSE IF isRandomChapterType(query)
        THEN ValidQuery("random_chapter", query, <<>>, options, "Random Chapter")
      ELSE IF isRandomVerseType(query)
        THEN ValidQuery("random_verse", query, <<>>, options, "Random Verse")
      ELSE IF isSearchType(query)
        THEN ValidQuery("search", query, <<>>, options, generateSearchMetadata(query))
      ELSE InvalidQuery("Invalid query")


(***************************************************************************)
(* The client: WikiSubmissionAPIClient and QuranV1APIClient.               *)
(***************************************************************************)
VARIABLES
  apiConfig,            \* the APIConfig handed to the constructor
  config,               \* this.config, the resolved configuration
  cacheCleanupInterval, \* whether the sweep timer is installed
  cache,                \* this.cache: cache key -> CacheEntry
  activeRequests,       \* this.activeRequests: the ids of the tracked attempts
  now,                  \* Date.now()
  nextId,               \* the number of request ids generated so far
  calls,                \* the query() invocations, in the order they were made
  batch,                \* the batchQuery() invocation
  lastSet,              \* per key, the last direct setCache: value, time, maxAge
  lastGet,              \* the last direct getFromCache: key, time, value returned
  lastOp,               \* the last call of cancelAllRequests or destroy: what it returned
  parsed                \* the last direct parseQuery: its arguments and what it returned

vars ==
  <<apiConfig, config, cacheCleanupInterval, cache, activeRequests, now,
    nextId, calls, batch, lastSet, lastGet, lastOp, parsed>>

\* The constructor's defaults.
DefaultRetryCount == 3
DefaultRetryDelayMs == 1000
DefaultCacheMaxAgeMs == 300000

\* JavaScript's x || d on an optional number: undefined and 0 are falsy.
OrDefault(x, d) == IF x = <<>> \/ x[1] = 0 THEN d ELSE x[1]

\* The constructor's resolution of the configuration.
ResolveConfig(c) ==
  [retryCount |-> OrDefault(c.retryCount, DefaultRetryCount),
   retryDelayMs |-> OrDefault(c.retryDelayMs, DefaultRetryDelayMs),
   enableCaching |-> c.enableCaching,
   cacheMaxAgeMs |-> OrDefault(c.cacheMaxAgeMs, DefaultCacheMaxAgeMs)]

\* generateRequestId: a value no earlier call returned.
generateRequestId(w) == w.nextId + 1

(***************************************************************************)
(* The cache.                                                              *)
(***************************************************************************)
EmptyCache == [k \in {} |-> 0]

\* JSON.stringify of an option value and of an options object: the keys in
\* insertion order.
JSONValue(v) ==
  IF v.t = "string" THEN "\"" \o v.items[1] \o "\""
  ELSE IF v.t = "array"
    THEN "[" \o join([i \in DOMAIN v.items |-> "\"" \o v.items[i] \o "\""], ",") \o "]"
  ELSE v.items[1]

JSONstringify(options) ==
  "{" \o join([i \in DOMAIN options |->
                 "\"" \o options[i][1] \o "\":" \o JSONValue(options[i][2])], ",")
      \o "}"

generateCacheKey(key, options) == Str(key) \o "_" \o JSONstringify(options)

\* The freshness test with the comparison turned around.
CacheFreshInverted(store, key, t) ==
  key \in DOMAIN store /\ t - store[key].timestamp > store[key].maxAge

\* getFromCache: the value returned (<<>> is null) and the cache it leaves.
CacheFresh(store, key, t) ==
  key \in DOMAIN store /\ t - store[key].timestamp < store[key].maxAge

getFromCache(store, key, t) ==
  IF CacheFresh(store, key, t) THEN <<store[key].data>> ELSE <<>>

\* An expired read that clears the whole map instead of deleting its key.
CacheAfterGetClear(store, key, t) ==
  IF CacheFresh(store, key, t) THEN store ELSE EmptyCache

CacheAfterGet(store, key, t) ==
  IF CacheFresh(store, key, t) THEN store
  ELSE [k \in DOMAIN store \ {key} |-> store[k]]

setCache(store, key, data, t) ==
  [k \in DOMAIN store \cup {key} |->
     IF k = key
       THEN [data |-> data, timestamp |-> t, maxAge |-> config.cacheMaxAgeMs]
       ELSE store[k]]

SweepExpired(store, key, t) == t - store[key].timestamp > store[key].maxAge

cleanupCache(store, t) ==
  [k \in {key \in DOMAIN store : ~SweepExpired(store, key, t)} |-> store[k]]

(***************************************************************************)
(* What the network answers to one attempt.                                *)
(***************************************************************************)
\* A response body: a direct array, an envelope {response: {data}}, an object
\* with an error field, or null.
ArrayBody(rows) == [kind |-> "array", rows |-> rows, error |-> ""]
EnvelopeBody(rows) == [kind |-> "envelope", rows |-> rows, error |-> ""]
ErrorBody(msg) == [kind |-> "error", rows |-> <<>>, error |-> msg]
NullBody == [kind |-> "null", rows |-> <<>>, error |-> ""]

\* An error the request rejects with: an AxiosError with the response's
\* status and the error message of its body, if any, or one without response
\* (status 0).
StatusError(status, serverError) ==
  [isAxiosError |-> TRUE, status |-> status, serverError |-> serverError,
   message |-> "Request failed with status code " \o Str(NumToChars(status)),
   isCancel |-> FALSE]

NetworkError ==
  [isAxiosError |-> TRUE, status |-> 0, serverError |-> "", message |-> "Network Error",
   isCancel |-> FALSE]

\* What a request rejects with once its token is cancelled: a CanceledError,
\* which is an AxiosError without response (axios 0.27 and later), or a plain
\* Cancel object (earlier versions).
CancelError(message, isAxiosError) ==
  [isAxiosError |-> isAxiosError, status |-> 0, serverError |-> "", message |-> message,
   isCancel |-> TRUE]

\* shouldRetry with every response status from 400 up retried.
shouldRetryClientErrors(error) ==
  IF error.isAxiosError THEN error.status = 0 \/ error.status >= 400 ELSE FALSE

shouldRetry(error) ==
  IF error.isAxiosError
    THEN error.status = 0 \/ error.status >= 500 \/ error.status = 408
         \/ error.status = 429
    ELSE FALSE

\* A backoff that grows by retryDelayMs per attempt instead of doubling.
LinearBackoffDelay(attempt) == config.retryDelayMs * (attempt + 1)

\* The wait before the retry that follows the failed attempt number `attempt`.
BackoffDelay(attempt) == config.retryDelayMs * (2 ^ attempt)

(***************************************************************************)
(* query() and executeRequest(), as steps on the part of the state they    *)
(* change: w = [cache, activeRequests, nextId, calls, batch].              *)
(***************************************************************************)
World ==
  [cache |-> cache, activeRequests |-> activeRequests, nextId |-> nextId,
   calls |-> calls, batch |-> batch]

Pending == [kind |-> "pending", message |-> "", envelope |-> <<>>]
APIError(message) == [kind |-> "APIError", message |-> message, envelope |-> <<>>]
Rejected(name) == [kind |-> "rejected", message |-> name, envelope |-> <<>>]
Success(envelope) == [kind |-> "ok", message |-> "", envelope |-> <<envelope>>]

\* What executeRequest resolved to: response.data, or a WikiSubmissionAPIError.
Data(body) == [isError |-> FALSE, message |-> "", body |-> body]
ExecuteError(message) == [isError |-> TRUE, message |-> message, body |-> NullBody]

NewCall(query, options, skipCache) ==
  [pc |-> "start", query |-> query, options |-> options, skipCache |-> skipCache,
   parsedQuery |-> <<>>,
   \* the params of the request last sent
   params |-> <<>>,
   requestId |-> 0, attempt |-> 0, attemptId |-> 0, lastError |-> <<>>,
   wakeAt |-> 0, responseData |-> <<>>, result |-> Pending,
   \* the abort signal handed in, whether it has fired, and what cancelled the
   \* token of the attempt in flight ("" while it is not cancelled)
   abortSignal |-> FALSE, aborted |-> FALSE, cancelled |-> "",
   \* history of the call
   attempts |-> 0, waited |-> 0, history |-> <<>>, failedAt |-> 0, finishedAt |-> 0]

\* query() returns (or, for a Rejected result, throws).
Return(w, c, result) ==
  [w EXCEPT !.calls[c] = [@ EXCEPT !.pc = "done", !.result = result,
                                    !.finishedAt = now]]

\* The cache test without its skipCache part.
UsesCacheIgnoringSkip(call) == config.enableCaching

UsesCache(call) == config.enableCaching /\ ~call.skipCache

\* The message of the error executeRequest returns after the loop.
LastErrorMessage(error) ==
  IF error.isAxiosError
    THEN IF error.serverError # "" THEN error.serverError
         ELSE IF error.message # "" THEN error.message
         ELSE "Network error"
    ELSE IF error.message # "" THEN error.message ELSE "Network error"

\* responseData.response?.data || responseData || []: the rows of an envelope
\* or of a direct array.
ExtractData(body) == body.rows

\* data === []: an array is never identical to a fresh one.
NoVersesFoundByIdentity(data) == FALSE

NoVersesFound(data) == Len(data) = 0

\* query() after executeRequest has resolved to responseData.
AfterExecute(w, c, responseData) ==
  LET call == w.calls[c]
      body == responseData.body
      w1 == [w EXCEPT !.calls[c].responseData = <<responseData>>]
      result == [id |-> call.requestId,
                 request |-> call.parsedQuery[1],
                 response |-> ExtractData(body)]
  IN  IF responseData.isError
        \* responseData.error of a WikiSubmissionAPIError is undefined
        THEN Return(w1, c, APIError("Unknown error"))
      ELSE IF body.kind = "null"
        \* reading .error of null throws
        THEN Return(w1, c, Rejected("TypeError"))
      ELSE IF body.error # ""
        THEN Return(w1, c, APIError(body.error))
      ELSE IF NoVersesFound(ExtractData(body))
        THEN Return(w1, c, APIError("No verses found with \"" \o Str(call.query) \o "\""))
      ELSE
        Return(
          IF UsesCache(call)
            THEN [w1 EXCEPT !.cache =
                    setCache(@, generateCacheKey(call.query, call.options), result, now)]
            ELSE w1,
          c, Success(result))

\* executeRequest after its loop has ended without a response.
AfterLoop(w, c) ==
  LET lastError == w.calls[c].lastError
  IN  IF lastError = <<>>
        \* reading .message of undefined throws
        THEN Return(w, c, Rejected("TypeError"))
        ELSE AfterExecute(w, c, ExecuteError(LastErrorMessage(lastError[1])))

\* obj[key] = value on an object kept as its entries in insertion order.
ObjectSet(obj, key, value) ==
  IF \E i \in DOMAIN obj : obj[i][1] = key
    THEN [i \in DOMAIN obj |-> IF obj[i][1] = key THEN <<key, value>> ELSE obj[i]]
    ELSE Append(obj, <<key, value>>)

\* {...obj, ...src}
RECURSIVE ObjectSpread(_, _)
ObjectSpread(obj, src) ==
  IF src = <<>> THEN obj
  ELSE ObjectSpread(ObjectSet(obj, Head(src)[1], Head(src)[2]), Tail(src))

\* {q: query, type: parsedQuery.type, ...queryOptions}
RequestParams(call) ==
  ObjectSpread(<< <<"q", StringValue(Str(call.query))>>,
                  <<"type", StringValue(call.parsedQuery[1].type)>> >>,
               call.options)

\* processedParams: the array values joined with commas.
ProcessParams(params) ==
  [i \in DOMAIN params |->
     <<params[i][1],
       IF params[i][2].t = "array"
         THEN StringValue(join(params[i][2].items, ","))
         ELSE params[i][2]>>]

\* The head of the loop of executeRequest: the attempt is registered and the
\* request sent, or the loop ends.
StartAttempt(w, c, attempt) ==
  IF attempt <= config.retryCount
    THEN LET requestId == generateRequestId(w)
         IN  [w EXCEPT !.nextId = requestId,
                       !.activeRequests = @ \cup {requestId},
                       !.calls[c] = [@ EXCEPT !.pc = "request",
                                              !.attempt = attempt,
                                              !.attemptId = requestId,
                                              !.params = ProcessParams(RequestParams(w.calls[c])),
                                              !.cancelled = "",
                                              !.attempts = @ + 1]]
    ELSE AfterLoop(w, c)

\* The element of a set of one element.
Only(S) == CHOOSE x \in S : TRUE

\* A test of the object returned instead of its valid flag: never true.
IsInvalidObject(parsedQuery) == FALSE

\* The test query() makes of the classifier's answer.
IsInvalid(parsedQuery) == ~parsedQuery.valid

\* query() from its cache check on, for a query the classifier accepted.
QueryValid(w, c) ==
  LET call == w.calls[c]
      cacheKey == generateCacheKey(call.query, call.options)
      cachedResult ==
        IF UsesCache(call) THEN getFromCache(w.cache, cacheKey, now) ELSE <<>>
      w2 == IF UsesCache(call)
              THEN [w EXCEPT !.cache = CacheAfterGet(@, cacheKey, now)]
              ELSE w
      requestId == generateRequestId(w2)
      w3 == [w2 EXCEPT !.nextId = requestId, !.calls[c].requestId = requestId]
  IN  IF cachedResult # <<>> THEN Return(w2, c, Success(cachedResult[1]))
      ELSE StartAttempt(w3, c, 0)

\* query() once parseQuery has returned parsedQuery.
QueryParsed(w, c, parsedQuery) ==
  IF IsInvalid(parsedQuery)
    THEN Return(w, c, APIError(parsedQuery.error))
    ELSE QueryValid([w EXCEPT !.calls[c].parsedQuery = <<parsedQuery>>], c)

\* query(query, queryOptions, {skipCache}) up to its first suspension.
Query(w, query, options, skipCache) ==
  LET c == Len(w.calls) + 1
      w1 == [w EXCEPT !.calls = Append(@, NewCall(query, options, skipCache))]
  IN  IF parseQueryThrows(query, options)
        THEN Return(w1, c, Rejected("ZodError"))
        ELSE Only({QueryParsed(w1, c, parsedQuery) :
                     parsedQuery \in {parseQuery(query, options)}})

\* The request of call c resolves with a response carrying `body`.
Respond(w, c, body) ==
  LET call == w.calls[c]
      w1 == [w EXCEPT !.activeRequests = @ \ {call.attemptId},
                      !.calls[c].history = Append(@, 200)]
  IN  AfterExecute(w1, c, Data(body))

\* What the history of a call keeps of a failed attempt: the status (0 without
\* response), or CancelledBySignal / CancelledByClient.
CancelledBySignal == 0 - 1
CancelledByClient == 0 - 2
HistoryMark(call, error) ==
  IF ~error.isCancel THEN error.status
  ELSE IF call.cancelled = "abortSignal" THEN CancelledBySignal ELSE CancelledByClient

\* The catch block without its this.activeRequests.delete(requestId).
FailKeepingEntry(w, c, error) ==
  LET call == w.calls[c]
      w1 == [w EXCEPT !.calls[c].lastError = <<error>>,
                      !.calls[c].failedAt = now,
                      !.calls[c].history = Append(@, HistoryMark(call, error))]
  IN  IF call.attempt = config.retryCount \/ ~shouldRetry(error)
        THEN AfterLoop(w1, c)
        ELSE [w1 EXCEPT !.calls[c] =
                [@ EXCEPT !.pc = "delay",
                          !.wakeAt = now + BackoffDelay(call.attempt),
                          !.waited = @ + BackoffDelay(call.attempt)]]

\* The request of call c rejects with `error`: the catch block.
Fail(w, c, error) ==
  LET call == w.calls[c]
      w1 == [w EXCEPT !.activeRequests = @ \ {call.attemptId},
                      !.calls[c].lastError = <<error>>,
                      !.calls[c].failedAt = now,
                      !.calls[c].history = Append(@, HistoryMark(call, error))]
  IN  IF call.attempt = config.retryCount \/ ~shouldRetry(error)
        THEN AfterLoop(w1, c)
        ELSE [w1 EXCEPT !.calls[c] =
                [@ EXCEPT !.pc = "delay",
                          !.wakeAt = now + BackoffDelay(call.attempt),
                          !.waited = @ + BackoffDelay(call.attempt)]]

\* The backoff timer of call c fires: the next iteration of the loop.
Resume(w, c) == StartAttempt(w, c, w.calls[c].attempt + 1)

(***************************************************************************)
(* Cancellation and teardown.                                              *)
(***************************************************************************)
\* cancelToken.cancel(reason) on the tokens of `ids`: the requests in flight
\* that hold them will reject.
CancelTokens(w, ids, by) ==
  [w EXCEPT !.calls =
     [c \in DOMAIN @ |->
        IF @[c].pc = "request" /\ @[c].attemptId \in ids /\ @[c].cancelled = ""
          THEN [@[c] EXCEPT !.cancelled = by]
          ELSE @[c]]]

\* cancelRequest(requestId), on the world; it returns whether the id was tracked.
cancelRequest(w, requestId) ==
  IF requestId \in w.activeRequests
    THEN [CancelTokens(w, {requestId}, "cancelRequest")
            EXCEPT !.activeRequests = @ \ {requestId}]
    ELSE w

\* The size read after the table was cleared.
ActiveRequestsSizeCleared(w) == 0

\* const count = this.activeRequests.size
ActiveRequestsSize(w) == Cardinality(w.activeRequests)

cancelAllRequests(w) ==
  [CancelTokens(w, w.activeRequests, "cancelAllRequests") EXCEPT !.activeRequests = {}]

clearCache(w) == [w EXCEPT !.cache = EmptyCache]

\* destroy() without its clearCache().
destroyKeepingCache(w) == cancelAllRequests(w)

\* destroy(), on the world; it also clears the sweep timer.
destroy(w) == clearCache(cancelAllRequests(w))

\* The listener executeRequest put on the abort signal, for the attempt in
\* flight of call c.
AbortListener(w, c) ==
  IF w.calls[c].pc = "request"
    THEN CancelTokens(w, {w.calls[c].attemptId}, "abortSignal")
    ELSE w

(***************************************************************************)
(* batchQuery(): the chunks run one after the other, the queries of a      *)
(* chunk are started together, and the batch goes on in the step in which  *)
(* the last query of its chunk returns.                                    *)
(***************************************************************************)
NoBatch == [pc |-> "idle", queries |-> <<>>, concurrency |-> 1, i |-> 0,
            chunk |-> <<>>, results |-> <<>>, items |-> <<>>]

\* queries.slice(i, concurrency): the end taken as a length.
ChunkOfLength(queries, i, concurrency) ==
  SubSeq(queries, i + 1, Min({concurrency, Len(queries)}))

\* queries.slice(i, i + concurrency)
ChunkOf(queries, i, concurrency) ==
  SubSeq(queries, i + 1, Min({i + concurrency, Len(queries)}))

\* The catch of the mapped callback: what is not an APIError is wrapped in one.
BatchItemResult(result) ==
  IF result.kind = "rejected"
    THEN APIError(IF result.message # "" THEN result.message ELSE "Unknown error")
    ELSE result

\* batch.map(...): the callbacks run in order, each up to the first
\* suspension of its query().
RECURSIVE StartItems(_, _)
StartItems(w, items) ==
  IF items = <<>> THEN w
  ELSE LET item == Head(items)
       IN  Only({StartItems([w1 EXCEPT !.batch.chunk = Append(@, Len(w1.calls)),
                                       !.batch.items = Append(@, Len(w1.calls))],
                            Tail(items)) :
                   w1 \in {Query(w, item.query, item.options, item.skipCache)}})

RECURSIVE BatchLoop(_)
RECURSIVE RunBatch(_)
\* The head of the for loop, at batch.i.
BatchLoop(w) ==
  LET b == w.batch
  IN  IF b.i < Len(b.queries)
        THEN Only({RunBatch(w1) :
                     w1 \in {StartItems([w EXCEPT !.batch.chunk = <<>>],
                                        ChunkOf(b.queries, b.i, b.concurrency))}})
        ELSE [w EXCEPT !.batch.pc = "done", !.batch.chunk = <<>>]

\* Promise.race in the place of Promise.all: the batch goes on as soon as one
\* query of the chunk has returned.
RunBatchRace(w) ==
  LET b == w.batch
  IN  IF b.pc # "running" \/ \A k \in DOMAIN b.chunk : w.calls[b.chunk[k]].pc # "done"
        THEN w
        ELSE BatchLoop(
               [w EXCEPT !.batch.results =
                           @ \o [k \in DOMAIN b.chunk |->
                                   BatchItemResult(w.calls[b.chunk[k]].result)],
                         !.batch.i = @ + b.concurrency])

\* await Promise.all(batchPromises): once every query of the chunk has
\* returned, the results are pushed in the order of the chunk.
RunBatch(w) ==
  LET b == w.batch
  IN  IF b.pc # "running" \/ \E k \in DOMAIN b.chunk : w.calls[b.chunk[k]].pc # "done"
        THEN w
        ELSE BatchLoop(
               [w EXCEPT !.batch.results =
                           @ \o [k \in DOMAIN b.chunk |->
                                   BatchItemResult(w.calls[b.chunk[k]].result)],
                         !.batch.i = @ + b.concurrency])

\* batchQuery(queries, concurrency) up to its first suspension.
BatchQuery(w, queries, concurrency) ==
  BatchLoop([w EXCEPT !.batch = [NoBatch EXCEPT !.pc = "running",
                                                !.queries = queries,
                                                !.concurrency = concurrency]])

Apply(w) ==
  \E v \in {w} :
    /\ cache' = v.cache
    /\ activeRequests' = v.activeRequests
    /\ nextId' = v.nextId
    /\ calls' = v.calls
    /\ batch' = v.batch

(***************************************************************************)
(* The inputs of the model.                                                *)
(***************************************************************************)
VerseQuery == <<"1", ":", "1">>
SearchQuery == <<"g", "o", "d">>
EmptyQuery == <<>>
NumberQuery == <<"9", "9", "9">>

QueryInputs == {VerseQuery, EmptyQuery, NumberQuery}

NoOptions == <<>>
LanguageThenCasing ==
  << <<"include_language", StringValue("turkish")>>,
     <<"normalize_god_casing", BooleanValue(TRUE)>> >>
CasingThenLanguage ==
  << <<"normalize_god_casing", BooleanValue(TRUE)>>,
     <<"include_language", StringValue("turkish")>> >>
\* include_language must be a string: this object fails the validation.
LanguageArray ==
  << <<"include_language", ArrayValue(<<"swedish", "turkish">>)>> >>

OptionInputs == {LanguageThenCasing, CasingThenLanguage, LanguageArray}

Rows == <<"verse">>

BodyInputs ==
  {ArrayBody(Rows), ArrayBody(<<>>), EnvelopeBody(<<>>), ErrorBody("Bad request"),
   NullBody}

\* The failures of this specification are final; SpecRetry follows the retries.
ErrorInputs == {StatusError(404, "Not found")}

ConfigInputs ==
  [retryCount : {<<1>>},
   retryDelayMs : {<<1>>},
   enableCaching : BOOLEAN,
   cacheMaxAgeMs : {<<2>>}]

NodeEnvs == {"test", "production"}

(***************************************************************************)
(* The state after construction, and the steps.                            *)
(***************************************************************************)
NoGet == [key |-> "", at |-> 0, value |-> <<>>]

NoParse == [query |-> <<>>, options |-> <<>>, called |-> FALSE, threw |-> FALSE,
            result |-> <<>>]

\* (calls: how many queries had been started when the method was called.)
NoOp == [n |-> 0, op |-> "", prev |-> "", returned |-> 0, threw |-> FALSE, calls |-> 0]

InitWith(configs) ==
  /\ apiConfig \in configs
  /\ config = ResolveConfig(apiConfig)
  /\ \E env \in NodeEnvs :
       cacheCleanupInterval = (config.enableCaching /\ env # "test")
  /\ cache = EmptyCache
  /\ activeRequests = {}
  /\ now = 0
  /\ nextId = 0
  /\ calls = <<>>
  /\ batch = NoBatch
  /\ lastSet = EmptyCache
  /\ lastGet = NoGet
  /\ lastOp = NoOp
  /\ parsed = NoParse

Init == InitWith(ConfigInputs)

\* A caller invokes query().
QueryStart(query, options, skipCache) ==
  /\ Len(calls) < MaxCalls
  /\ \E w \in {Query(World, query, options, skipCache)} : Apply(RunBatch(w))
  /\ UNCHANGED <<apiConfig, config, cacheCleanupInterval, now, lastSet, lastGet, lastOp, parsed>>

\* The attempt in flight of call c gets a response.
AttemptSucceed(c, body) ==
  /\ calls[c].pc = "request"
  /\ calls[c].cancelled = ""
  /\ \E w \in {Respond(World, c, body)} : Apply(RunBatch(w))
  /\ UNCHANGED <<apiConfig, config, cacheCleanupInterval, now, lastSet, lastGet, lastOp, parsed>>

\* The attempt in flight of call c fails.
AttemptFail(c, error) ==
  /\ calls[c].pc = "request"
  /\ calls[c].cancelled = ""
  /\ \E w \in {Fail(World, c, error)} : Apply(RunBatch(w))
  /\ UNCHANGED <<apiConfig, config, cacheCleanupInterval, now, lastSet, lastGet, lastOp, parsed>>

\* A retry that does not wait for its timer.
BackoffElapseEarly(c) ==
  /\ calls[c].pc = "delay"
  /\ \E w \in {Resume(World, c)} : Apply(RunBatch(w))
  /\ UNCHANGED <<apiConfig, config, cacheCleanupInterval, now, lastSet, lastGet, lastOp, parsed>>

\* The backoff wait of call c is over.
BackoffElapse(c) ==
  /\ calls[c].pc = "delay"
  /\ now >= calls[c].wakeAt
  /\ \E w \in {Resume(World, c)} : Apply(RunBatch(w))
  /\ UNCHANGED <<apiConfig, config, cacheCleanupInterval, now, lastSet, lastGet, lastOp, parsed>>

\* Time passes.
Tick(limit) ==
  /\ now < limit
  /\ now' = now + 1
  /\ UNCHANGED <<apiConfig, config, cacheCleanupInterval, cache, activeRequests,
                 nextId, calls, batch, lastSet, lastGet, lastOp, parsed>>

\* The sweep timer fires.  (Its period is not modelled: it may fire at any
\* time while it is installed.)
CleanupCache ==
  /\ cacheCleanupInterval
  /\ cache' = cleanupCache(cache, now)
  /\ UNCHANGED <<apiConfig, config, cacheCleanupInterval, activeRequests, now,
                 nextId, calls, batch, lastSet, lastGet, lastOp, parsed>>

Next ==
  \/ \E query \in QueryInputs, options \in OptionInputs, skipCache \in BOOLEAN :
       QueryStart(query, options, skipCache)
  \/ \E c \in DOMAIN calls, body \in BodyInputs : AttemptSucceed(c, body)
  \/ \E c \in DOMAIN calls, error \in ErrorInputs : AttemptFail(c, error)
  \/ Tick(MaxTime)
  \/ CleanupCache

Spec == Init /\ [][Next]_vars


(***************************************************************************)
(* One logical call followed through its retries: every retry count the    *)
(* constructor can be given, every kind of failure.                        *)
(***************************************************************************)
RetryQueryInputs == {SearchQuery}

RetryOptionInputs == {NoOptions}

RetryBodyInputs == {ArrayBody(Rows), EnvelopeBody(Rows), ArrayBody(<<>>)}

RetryErrorInputs ==
  {NetworkError, StatusError(404, ""), StatusError(408, ""), StatusError(429, ""),
   StatusError(500, ""), StatusError(503, "Service unavailable")}

RetryConfigInputs ==
  [retryCount : {<<>>, <<0>>, <<1>>, <<2>>},
   retryDelayMs : {<<1>>},
   enableCaching : {FALSE},
   cacheMaxAgeMs : {<<>>}]

InitRetry == InitWith(RetryConfigInputs)

NextRetry ==
  \/ \E query \in RetryQueryInputs, options \in RetryOptionInputs :
       calls = <<>> /\ QueryStart(query, options, FALSE)
  \/ \E c \in DOMAIN calls, body \in RetryBodyInputs : AttemptSucceed(c, body)
  \/ \E c \in DOMAIN calls, error \in RetryErrorInputs : AttemptFail(c, error)
  \/ \E c \in DOMAIN calls : BackoffElapse(c)
  \/ Tick(MaxRetryTime)

SpecRetry == InitRetry /\ [][NextRetry]_vars

(***************************************************************************)
(* Cancellation and teardown: queries with an abort signal, the signal     *)
(* firing, cancelAllRequests() and destroy() at any moment.                *)
(***************************************************************************)
CancelQueryInputs == {SearchQuery}

CancelBodyInputs == {ArrayBody(Rows)}

CancelErrorInputs == {StatusError(500, "")}

\* The rejection of a cancelled request, for either kind of axios.
CancelRejectionInputs ==
  {CancelError(message, isAxiosError) :
     message \in {"Request aborted", "Request cancelled by user",
                  "All requests cancelled"},
     isAxiosError \in BOOLEAN}

CancelConfigInputs ==
  [retryCount : {<<1>>},
   retryDelayMs : {<<1>>},
   enableCaching : {TRUE},
   cacheMaxAgeMs : {<<>>}]

InitCancel == InitWith(CancelConfigInputs)

\* A caller invokes query() with an abort signal.
QueryStartAbortable(query, options, skipCache) ==
  /\ Len(calls) < MaxCalls
  /\ \E w \in {Query(World, query, options, skipCache)} :
       Apply(RunBatch([w EXCEPT !.calls[Len(w.calls)].abortSignal = TRUE]))
  /\ UNCHANGED <<apiConfig, config, cacheCleanupInterval, now, lastSet, lastGet, lastOp, parsed>>

\* The abort signal of call c fires.
SignalAbort(c) ==
  /\ calls[c].abortSignal
  /\ ~calls[c].aborted
  /\ \E w \in {AbortListener(World, c)} :
       Apply([w EXCEPT !.calls[c].aborted = TRUE])
  /\ UNCHANGED <<apiConfig, config, cacheCleanupInterval, now, lastSet, lastGet, lastOp, parsed>>

\* The cancelled request of call c rejects.
AttemptCancelled(c, error) ==
  /\ calls[c].pc = "request"
  /\ calls[c].cancelled # ""
  /\ error.message =
       (IF calls[c].cancelled = "abortSignal" THEN "Request aborted"
        ELSE IF calls[c].cancelled = "cancelRequest" THEN "Request cancelled by user"
        ELSE "All requests cancelled")
  /\ \E w \in {Fail(World, c, error)} : Apply(RunBatch(w))
  /\ UNCHANGED <<apiConfig, config, cacheCleanupInterval, now, lastSet, lastGet, lastOp, parsed>>

\* A caller invokes cancelRequest(requestId), with an id that is tracked, was
\* tracked or never was.
CancelRequest(requestId) ==
  /\ lastOp.n < MaxOps
  /\ \E w \in {World} :
       /\ Apply(cancelRequest(w, requestId))
       /\ lastOp' = [n |-> lastOp.n + 1, op |-> "cancelRequest", prev |-> lastOp.op,
                     returned |-> IF requestId \in w.activeRequests THEN 1 ELSE 0,
                     threw |-> FALSE, calls |-> Len(calls)]
  /\ UNCHANGED <<apiConfig, config, cacheCleanupInterval, now, lastSet, lastGet, parsed>>

\* A caller invokes cancelAllRequests().
CancelAllRequests ==
  /\ lastOp.n < MaxOps
  /\ \E w \in {World} :
       /\ Apply(cancelAllRequests(w))
       /\ lastOp' = [n |-> lastOp.n + 1, op |-> "cancelAllRequests", prev |-> lastOp.op,
                     returned |-> ActiveRequestsSize(w), threw |-> FALSE,
                     calls |-> Len(calls)]
  /\ UNCHANGED <<apiConfig, config, cacheCleanupInterval, now, lastSet, lastGet, parsed>>

\* A caller invokes destroy().
Destroy ==
  /\ lastOp.n < MaxOps
  /\ cacheCleanupInterval' = FALSE
  /\ \E w \in {World} : Apply(destroy(w))
  /\ lastOp' = [n |-> lastOp.n + 1, op |-> "destroy", prev |-> lastOp.op,
                returned |-> 0, threw |-> FALSE, calls |-> Len(calls)]
  /\ UNCHANGED <<apiConfig, config, now, lastSet, lastGet, parsed>>

NextCancel ==
  \/ \E query \in CancelQueryInputs : QueryStartAbortable(query, NoOptions, FALSE)
  \/ \E c \in DOMAIN calls : SignalAbort(c)
  \/ \E c \in DOMAIN calls, error \in CancelRejectionInputs : AttemptCancelled(c, error)
  \/ \E c \in DOMAIN calls, body \in CancelBodyInputs : AttemptSucceed(c, body)
  \/ \E c \in DOMAIN calls, error \in CancelErrorInputs : AttemptFail(c, error)
  \/ \E c \in DOMAIN calls : BackoffElapse(c)
  \/ \E requestId \in 1..(nextId + 1) : CancelRequest(requestId)
  \/ CancelAllRequests
  \/ Destroy
  \/ Tick(MaxBatchTime)

SpecCancel == InitCancel /\ [][NextCancel]_vars


(***************************************************************************)
(* The request sent: one query of every kind, with options that hold keys  *)
(* of the schema, keys the schema passes through and array values.         *)
(***************************************************************************)
ChapterQuery == <<"1">>

ParamQueryInputs == {VerseQuery, ChapterQuery, SearchQuery}

\* Keys the schema does not know: it lets them through.
TagsArray == << <<"tags", ArrayValue(<<"a", "b">>)>> >>
OtherQ == << <<"q", StringValue("2:2")>> >>
OtherType == << <<"include_language", StringValue("turkish")>>,
                <<"type", StringValue("search")>> >>

ParamOptionInputs == {NoOptions, LanguageThenCasing, TagsArray, OtherQ, OtherType}

ParamBodyInputs == {ArrayBody(Rows)}

ParamErrorInputs == {StatusError(500, "")}

ParamConfigInputs ==
  [retryCount : {<<1>>},
   retryDelayMs : {<<1>>},
   enableCaching : {FALSE},
   cacheMaxAgeMs : {<<>>}]

InitParams == InitWith(ParamConfigInputs)

NextParams ==
  \/ \E query \in ParamQueryInputs, options \in ParamOptionInputs :
       calls = <<>> /\ QueryStart(query, options, FALSE)
  \/ \E c \in DOMAIN calls, body \in ParamBodyInputs : AttemptSucceed(c, body)
  \/ \E c \in DOMAIN calls, error \in ParamErrorInputs : AttemptFail(c, error)
  \/ \E c \in DOMAIN calls : BackoffElapse(c)
  \/ Tick(MaxBatchTime)

SpecParams == InitParams /\ [][NextParams]_vars


(***************************************************************************)
(* The classifier on its own: one direct call of parseQuery on a query     *)
(* drawn from the chapter numbers around 1..LastChapter, bare and after    *)
(* "chapter:", the renderings of every record of the index table, and      *)
(* strings close to them: leading zeros, white space, text after the       *)
(* number, references outside the table.                                   *)
(***************************************************************************)
ClassifyNumbers == 0..(LastChapter + 1)

BareInputs == {NumToChars(n) : n \in ClassifyNumbers}

PrefixInputs == {ChapterColon \o NumToChars(n) : n \in ClassifyNumbers}

VerseInputs == {VerseId(VerseIndices[k]) : k \in DOMAIN VerseIndices}

Mercy == <<"m", "e", "r", "c", "y">>

NearChapterInputs ==
  { ChapterColon \o <<"1", " ">> \o Mercy,
    ChapterColon \o <<" ", "1">>,
    ChapterColon \o <<"1", ":", "2">>,
    ChapterColon \o <<"0", "1">>,
    ChapterColon,
    ChapterColon \o Mercy,
    WordChapter \o <<" ", "1">>,
    <<" ", "1">>, <<"1", " ">>, <<"0", "0", "7">>, <<>> }

NearVerseInputs ==
  { <<"0", "1", ":", "1">>, <<"1", ":", "0", "1">>, <<" ", "1", ":", "1">>,
    <<"1", ":", "1", " ">>, <<"1", ":", " ", "1">>, <<"1", " ", ":", "1">>,
    <<"1", ":", "0">>, <<"0", ":", "1">>, <<"1", ":">>, <<":", "1">>,
    NumToChars(LastChapter + 1) \o <<":", "1">>,
    <<"1", ":">> \o NumToChars(VersesPerChapter + 1) }

\* The text `${chapter}:${start}-${end}`.
RangeText(chapter, start, end) ==
  NumToChars(chapter) \o <<":">> \o NumToChars(start) \o <<"-">> \o NumToChars(end)

RangeChapters == {0, 1, 2, LastChapter, LastChapter + 1}

RangeVerses == 0..(VersesPerChapter + 1)

RangeInputs ==
  {RangeText(c, s, e) : c \in RangeChapters, s \in RangeVerses, e \in RangeVerses}

NearRangeInputs ==
  { <<"1", ":", "1", "-">>, <<"1", ":", "-", "3">>, <<"-">>, <<"1", "-", "3">>,
    <<"1", ":", "1", "-", "x">>, <<"1", ":", "1", "-", "2", "-", "3">> }

MultipleInputs ==
  { <<"2", ":", "1", ",", "1", ":", "1">>,
    <<"1", ":", "1", ",", "2", ":", "3", ",", "3", ":", "2">>,
    <<"3", ":", "2", ",", "1", ":", "1", ",", "2", ":", "3">>,
    <<"1", ":", "1", ",", " ", "1", ":", "2", "-", "3">>,
    <<"1", ":", "2", "-", "3", ",", "1", ":", "1">>,
    <<" ", "2", ":", "2", " ", ",", "\t", "1", ":", "3", " ">>,
    <<"1", ":", "1", ",", "x", ",", "2", ":", "2">>,
    <<"1", ":", "1", ",", ",", "2", ":", "2">>,
    <<"0", "1", ":", "1", ",", "1", ":", "2">>,
    <<"1", ":", "1", ",", "1", ":", "1">>,
    <<"1", ":", "1", ",">>, <<",", "1", ":", "1">>, <<",">>,
    <<"1", ":", "3", "-", "1", ",", "0", ":", "1">>,
    <<"x", ",", "y">>,
    <<"1", ",", "2">>,
    ChapterColon \o <<"1", ",", "2">>,
    <<"1", ":", "1", ",", "2", ":", "1", "-", "2">> }

WordGod == <<"g", "o", "d">>

RandomChapterVerse == WordRandom \o <<" ">> \o WordChapter \o <<" ">> \o WordVerse

RandomVerseSentinel == WordRandom \o <<"-">> \o WordVerse

WordInputs ==
  { WordRandom \o <<" ">> \o WordChapter,
    WordRandom \o <<" ">> \o WordVerse,
    RandomChapterVerse,
    WordVerse \o <<" ">> \o WordChapter \o <<" ">> \o WordRandom,
    WordVerse \o WordRandom,
    <<"R", "a", "n", "d", "o", "m", " ", "V", "E", "R", "S", "E">>,
    RandomVerseSentinel,
    WordRandom \o <<"-">> \o WordChapter,
    WordRandom, WordChapter, WordVerse, WordGod, Mercy,
    WordVerse \o <<":">> \o WordGod,
    <<"r", "o", "o", "t", ":">> \o WordGod,
    <<"1", ":", "1", ",">> \o WordRandom \o <<" ">> \o WordVerse,
    ChapterColon \o <<"2", " ">> \o WordRandom,
    <<"1", ":", "1", " ">> \o WordGod,
    <<"a">>, <<"1", "a">>, <<"!", "!">>, <<"!", "?", "*">>, <<" ">>, <<"\t", " ">>,
    <<" ", "g", "o", "d", " ">> }

ClassifyInputs ==
  BareInputs \cup PrefixInputs \cup VerseInputs \cup NearChapterInputs
    \cup NearVerseInputs \cup RangeInputs \cup NearRangeInputs \cup MultipleInputs
    \cup WordInputs

SortByOrdinal == << <<"sort_results", StringValue("verse_index")>> >>
SortUnknown == << <<"sort_results", StringValue("none")>> >>

ClassifyOptionInputs == {NoOptions, SortByOrdinal, SortUnknown}

ClassifyConfigInputs ==
  [retryCount : {<<>>},
   retryDelayMs : {<<>>},
   enableCaching : {FALSE},
   cacheMaxAgeMs : {<<>>}]

\* The client as constructed, and the arguments of the call about to be made.
InitClassify ==
  /\ apiConfig \in ClassifyConfigInputs
  /\ config = ResolveConfig(apiConfig)
  /\ cacheCleanupInterval = FALSE
  /\ cache = EmptyCache
  /\ activeRequests = {}
  /\ now = 0
  /\ nextId = 0
  /\ calls = <<>>
  /\ batch = NoBatch
  /\ lastSet = EmptyCache
  /\ lastGet = NoGet
  /\ lastOp = NoOp
  /\ \E query \in ClassifyInputs, options \in ClassifyOptionInputs :
       parsed = [NoParse EXCEPT !.query = query, !.options = options]

\* QuranV1Methods.parseQuery(parsed.query, parsed.options) is called.
ParseQuery ==
  /\ ~parsed.called
  /\ parsed' =
       IF parseQueryThrows(parsed.query, parsed.options)
         THEN [parsed EXCEPT !.called = TRUE, !.threw = TRUE]
         ELSE [parsed EXCEPT !.called = TRUE,
                             !.result = <<parseQuery(parsed.query, parsed.options)>>]
  /\ UNCHANGED <<apiConfig, config, cacheCleanupInterval, cache, activeRequests,
                 now, nextId, calls, batch, lastSet, lastGet, lastOp>>

NextClassify == ParseQuery

SpecClassify == InitClassify /\ [][NextClassify]_vars


(***************************************************************************)
(* The cache operations on their own: setCache, getFromCache and the sweep *)
(* applied in any order to two keys while time passes.                     *)
(***************************************************************************)
CacheKeyInputs ==
  {generateCacheKey(VerseQuery, NoOptions), generateCacheKey(SearchQuery, NoOptions)}

CacheDataInputs ==
  {[id |-> i, request |-> parseQuery(VerseQuery, NoOptions), response |-> Rows] :
     i \in 1..2}

CacheConfigInputs ==
  [retryCount : {<<>>},
   retryDelayMs : {<<>>},
   enableCaching : {TRUE},
   cacheMaxAgeMs : {<<1>>, <<2>>}]

InitCache == InitWith(CacheConfigInputs)

\* setCache(key, data).
CacheSet(key, data) ==
  /\ cache' = setCache(cache, key, data, now)
  /\ lastSet' =
       [k \in DOMAIN lastSet \cup {key} |->
          IF k = key
            THEN [data |-> data, timestamp |-> now, maxAge |-> config.cacheMaxAgeMs]
            ELSE lastSet[k]]
  /\ UNCHANGED <<apiConfig, config, cacheCleanupInterval, activeRequests, now,
                 nextId, calls, batch, lastGet, lastOp, parsed>>

\* getFromCache(key).
CacheGet(key) ==
  /\ lastGet' = [key |-> key, at |-> now, value |-> getFromCache(cache, key, now)]
  /\ cache' = CacheAfterGet(cache, key, now)
  /\ UNCHANGED <<apiConfig, config, cacheCleanupInterval, activeRequests, now,
                 nextId, calls, batch, lastSet, lastOp, parsed>>

\* The sweep timer fires; the time of the sweep is kept.
CacheSweep ==
  /\ cacheCleanupInterval
  /\ cache' = cleanupCache(cache, now)
  /\ lastOp' = [NoOp EXCEPT !.op = "cleanupCache", !.returned = now]
  /\ UNCHANGED <<apiConfig, config, cacheCleanupInterval, activeRequests, now,
                 nextId, calls, batch, lastSet, lastGet, parsed>>

NextCache ==
  \/ \E key \in CacheKeyInputs, data \in CacheDataInputs : CacheSet(key, data)
  \/ \E key \in CacheKeyInputs : CacheGet(key)
  \/ Tick(MaxTime)
  \/ CacheSweep

SpecCache == InitCache /\ [][NextCache]_vars

(***************************************************************************)
(* One batchQuery(): every list of up to MaxBatch items, every concurrency *)
(* up to MaxBatch.                                                         *)
(***************************************************************************)
BatchItem(query, options) == [query |-> query, options |-> options, skipCache |-> FALSE]

BatchItemInputs ==
  {BatchItem(VerseQuery, NoOptions), BatchItem(VerseQuery, LanguageArray),
   BatchItem(EmptyQuery, NoOptions)}

BatchInputs == UNION {[1..n -> BatchItemInputs] : n \in 0..MaxBatch}

BatchBodyInputs == {ArrayBody(Rows)}

BatchErrorInputs == {StatusError(500, "")}

BatchConfigInputs ==
  [retryCount : {<<1>>},
   retryDelayMs : {<<1>>},
   enableCaching : {TRUE},
   cacheMaxAgeMs : {<<>>}]

InitBatch == InitWith(BatchConfigInputs)

\* A caller invokes batchQuery().
BatchStart(queries, concurrency) ==
  /\ batch.pc = "idle"
  /\ \E w \in {World} : Apply(BatchQuery(w, queries, concurrency))
  /\ UNCHANGED <<apiConfig, config, cacheCleanupInterval, now, lastSet, lastGet, lastOp, parsed>>

NextBatch ==
  \/ \E queries \in BatchInputs, concurrency \in 1..MaxBatch :
       BatchStart(queries, concurrency)
  \/ \E c \in DOMAIN calls, body \in BatchBodyInputs : AttemptSucceed(c, body)
  \/ \E c \in DOMAIN calls, error \in BatchErrorInputs : AttemptFail(c, error)
  \/ \E c \in DOMAIN calls : BackoffElapse(c)
  \/ Tick(MaxBatchTime)

SpecBatch == InitBatch /\ [][NextBatch]_vars


(***************************************************************************)
(* The claims.                                                             *)
(***************************************************************************)
\* C1: query() always resolves to a success envelope or to an APIError; it
\* never throws or rejects, whatever the query, the options (those that fail
\* the option validation included) and the network outcome.
QueryNeverRejects ==
  \A c \in DOMAIN calls :
    /\ calls[c].result.kind # "rejected"
    /\ calls[c].pc = "done" => calls[c].result.kind \in {"ok", "APIError"}

\* C2: a client constructed with retryCount n >= 0 (0 included) makes at most
\* n + 1 physical attempts per logical call.
AttemptsWithinConfiguredRetryCount ==
  \A c \in DOMAIN calls :
    apiConfig.retryCount # <<>> => calls[c].attempts <= apiConfig.retryCount[1] + 1

\* The statuses after which a retry is allowed: none (0), 5xx, 408 and 429.
TransientStatus(status) ==
  status = 0 \/ (status >= 500 /\ status <= 599) \/ status \in {408, 429}

\* retryDelayMs * 2^k summed over k in 0..n-1.
RECURSIVE BackoffSum(_)
BackoffSum(n) ==
  IF n = 0 THEN 0 ELSE BackoffSum(n - 1) + config.retryDelayMs * (2 ^ (n - 1))

\* C3: the executor waits for a retry only after a failure without response
\* status or with status 5xx, 408 or 429; a failure with any other status is
\* the call's last attempt: the call has failed at once, having waited only
\* for its earlier retries (for a first attempt: one attempt, no wait).
RetryOnlyTransientFailures ==
  \A c \in DOMAIN calls :
    LET call == calls[c]
        h == call.history
    IN  /\ call.pc = "delay" => h # <<>> /\ TransientStatus(h[Len(h)])
        /\ \A i \in DOMAIN h :
             (h[i] # 200 /\ ~TransientStatus(h[i])) =>
               /\ i = Len(h)
               /\ call.pc = "done"
               /\ call.result.kind = "APIError"
               /\ call.attempts = i
               /\ call.waited = BackoffSum(i - 1)
               /\ call.wakeAt <= call.finishedAt

\* C3, witness: a call retried after a 500 and failed at once on a 404.
RetriedThenFailedAtOnce ==
  \E c \in DOMAIN calls :
    /\ calls[c].history = <<500, 404>>
    /\ calls[c].pc = "done"
    /\ calls[c].attempts = 2
    /\ calls[c].waited = config.retryDelayMs

\* C4: a call whose first N-1 attempts failed with status 500 and whose
\* attempt N got a response has made exactly N attempts, N <= retryCount+1,
\* has waited retryDelayMs*2^k summed over k in 0..N-2, and executeRequest
\* resolved to the data of that response (which query() returns in its
\* envelope when it holds rows).
SucceedsAfterServerErrors ==
  \A c \in DOMAIN calls :
    LET call == calls[c]
        h == call.history
        N == Len(h)
    IN  (h # <<>> /\ h[N] = 200 /\ \A i \in 1..(N - 1) : h[i] = 500) =>
          /\ call.attempts = N
          /\ N <= config.retryCount + 1
          /\ call.waited = BackoffSum(N - 1)
          /\ call.finishedAt >= call.waited
          /\ call.responseData # <<>>
          /\ ~call.responseData[1].isError
          /\ call.responseData[1].body.rows # <<>> =>
               /\ call.result.kind = "ok"
               /\ call.result.envelope[1].response = call.responseData[1].body.rows

\* C4, witness: success on the third attempt after two 500s.
SucceededOnThirdAttempt ==
  \E c \in DOMAIN calls :
    /\ calls[c].history = <<500, 500, 200>>
    /\ calls[c].result.kind = "ok"
    /\ calls[c].waited = 3 * config.retryDelayMs


\* The classifier reports the call's query as invalid.
ReportedInvalid(call) ==
  /\ ~parseQueryThrows(call.query, call.options)
  /\ ~parseQuery(call.query, call.options).valid

\* C5: a query() whose query the classifier reports as invalid returns an
\* APIError in its first step, has made no attempt (and never makes one), and
\* that step leaves the cache and the table of in-flight requests as they were.
InvalidQueryReturnsAtOnce ==
  /\ [](\A c \in DOMAIN calls :
          ReportedInvalid(calls[c]) =>
            /\ calls[c].pc = "done"
            /\ calls[c].result.kind = "APIError"
            /\ calls[c].attempts = 0
            /\ calls[c].history = <<>>)
  /\ [][\A c \in DOMAIN calls' \ DOMAIN calls :
          ReportedInvalid(calls'[c]) =>
            /\ cache' = cache
            /\ activeRequests' = activeRequests
            /\ nextId' = nextId]_vars

\* C5, witness: the empty query has returned "Invalid query" while the cache
\* holds an entry.
InvalidQueryReturned ==
  \E c \in DOMAIN calls :
    /\ calls[c].query = EmptyQuery
    /\ calls[c].pc = "done"
    /\ calls[c].result = APIError("Invalid query")
    /\ DOMAIN cache # {}

\* The attempt of the call got a response whose result set is empty.
GotEmptyResult(call) ==
  /\ call.responseData # <<>>
  /\ ~call.responseData[1].isError
  /\ call.responseData[1].body.kind \in {"array", "envelope"}
  /\ call.responseData[1].body.rows = <<>>

\* C6: a query() whose network call succeeded with an empty result set has
\* returned an APIError, not a success envelope; the step in which it returns
\* leaves the cache as it was, and no cache entry holds an empty response.
EmptyResultIsError ==
  /\ [](/\ \A c \in DOMAIN calls :
             GotEmptyResult(calls[c]) =>
               calls[c].pc = "done" /\ calls[c].result.kind = "APIError"
        /\ \A k \in DOMAIN cache : cache[k].data.response # <<>>)
  /\ [][\A c \in DOMAIN calls :
          (calls[c].pc = "request" /\ GotEmptyResult(calls'[c])) => cache' = cache]_vars

\* C6, witness: with caching in use and an entry in the cache, a call got an
\* empty envelope and returned an APIError.
EmptyResultReturned ==
  \E c \in DOMAIN calls :
    /\ GotEmptyResult(calls[c])
    /\ calls[c].responseData[1].body.kind = "envelope"
    /\ calls[c].result.kind = "APIError"
    /\ UsesCache(calls[c])
    /\ DOMAIN cache # {}

\* The call went to the network, succeeded and stored its envelope.
StoredItsResult(call) ==
  /\ UsesCache(call)
  /\ call.pc = "done"
  /\ call.result.kind = "ok"
  /\ call.attempts > 0

\* C7: with caching enabled and skipCache unset, a query() issued less than
\* cacheMaxAgeMs after an identical query (same string, same options) has
\* succeeded returns in its first step, without any attempt, the envelope
\* such an earlier query stored.
RepeatedQueryServedFromCache ==
  [][\A c \in DOMAIN calls' \ DOMAIN calls :
       \A c0 \in DOMAIN calls :
         ( /\ StoredItsResult(calls[c0])
           /\ UsesCache(calls'[c])
           /\ calls'[c].query = calls[c0].query
           /\ calls'[c].options = calls[c0].options
           /\ now - calls[c0].finishedAt < config.cacheMaxAgeMs ) =>
           /\ calls'[c].pc = "done"
           /\ calls'[c].attempts = 0
           /\ calls'[c].result.kind = "ok"
           /\ \E d \in DOMAIN calls :
                /\ StoredItsResult(calls[d])
                /\ calls[d].query = calls'[c].query
                /\ calls[d].options = calls'[c].options
                /\ calls'[c].result = calls[d].result
           /\ activeRequests' = activeRequests
           /\ nextId' = nextId]_vars

\* C7, witness: an identical query was served from the cache at a later time
\* than the one at which the first succeeded.
ServedFromCacheLater ==
  \E c0, c \in DOMAIN calls :
    /\ c0 < c
    /\ StoredItsResult(calls[c0])
    /\ UsesCache(calls[c])
    /\ calls[c].query = calls[c0].query
    /\ calls[c].options = calls[c0].options
    /\ calls[c].pc = "done"
    /\ calls[c].attempts = 0
    /\ calls[c].result = calls[c0].result
    /\ calls[c].finishedAt > calls[c0].finishedAt

\* Two options objects that are equal as key-value mappings.
SameMapping(o1, o2) == Range(o1) = Range(o2)

\* C9: two requests have the same cache key exactly when they have the same
\* query string and options that are equal as key-value mappings, whatever
\* the order in which the option keys were given.
CacheKeyIgnoresKeyOrder ==
  \A c1, c2 \in DOMAIN calls :
    (calls[c1].query = calls[c2].query
       /\ SameMapping(calls[c1].options, calls[c2].options))
    <=> (generateCacheKey(calls[c1].query, calls[c1].options)
           = generateCacheKey(calls[c2].query, calls[c2].options))

\* C8: getFromCache(k) returns the value of the last setCache(k, v) as long
\* as less than maxAge has passed since that setCache, and then changes
\* nothing; once maxAge has passed (or k was never set) it returns a miss,
\* leaves no entry for k and leaves every other entry as it was.
CacheRoundTrip ==
  [][lastGet' # lastGet =>
       LET k == lastGet'.key
       IN  IF k \in DOMAIN lastSet /\ now - lastSet[k].timestamp < lastSet[k].maxAge
             THEN /\ lastGet'.value = <<lastSet[k].data>>
                  /\ cache' = cache
             ELSE /\ lastGet'.value = <<>>
                  /\ k \notin DOMAIN cache'
                  /\ DOMAIN cache' = DOMAIN cache \ {k}
                  /\ \A j \in DOMAIN cache' : cache'[j] = cache[j]]_vars

\* C8, witness: without the sweep timer, a key that was set is read after its
\* maxAge has passed: the read misses, the key's entry is gone and the entry
\* of the other key is still there.
ExpiredReadRemovedEntry ==
  /\ ~cacheCleanupInterval
  /\ lastGet.key \in DOMAIN lastSet
  /\ lastGet.at - lastSet[lastGet.key].timestamp >= lastSet[lastGet.key].maxAge
  /\ lastGet.value = <<>>
  /\ lastGet.key \notin DOMAIN cache
  /\ DOMAIN cache # {}

\* C10: batchQuery started every query of every chunk it has reached (a
\* throwing or failing item stops none of its siblings), and when it returns
\* the result has the input's length and its i-th element is what the i-th
\* input's query() returned, or an APIError with the message of what it threw;
\* every element is a success envelope or an APIError.
BatchResultsAlignedWithInput ==
  /\ batch.pc = "running" =>
       /\ Len(batch.items) = Min({batch.i + batch.concurrency, Len(batch.queries)})
       /\ Len(batch.results) = batch.i
  /\ batch.pc = "done" =>
       /\ Len(batch.results) = Len(batch.queries)
       /\ Len(batch.items) = Len(batch.queries)
       /\ \A i \in DOMAIN batch.queries :
            LET call == calls[batch.items[i]]
            IN  /\ call.query = batch.queries[i].query
                /\ call.options = batch.queries[i].options
                /\ call.pc = "done"
                /\ batch.results[i].kind \in {"ok", "APIError"}
                /\ call.result.kind \in {"ok", "APIError"} =>
                     batch.results[i] = call.result
                /\ call.result.kind = "rejected" =>
                     /\ batch.results[i].kind = "APIError"
                     /\ batch.results[i].message = call.result.message

\* C10, witness: a batch of three with concurrency 2 has returned; its first
\* query failed on the network after its sibling had succeeded, its second
\* succeeded, and the third, alone in the later chunk, threw.
BatchReturnedOutOfOrder ==
  /\ batch.pc = "done"
  /\ Len(batch.queries) = 3
  /\ batch.concurrency = 2
  /\ batch.results[1].kind = "APIError"
  /\ calls[batch.items[1]].attempts > 0
  /\ batch.results[2].kind = "ok"
  /\ calls[batch.items[2]].finishedAt < calls[batch.items[1]].finishedAt
  /\ calls[batch.items[3]].result.kind = "rejected"
  /\ batch.results[3].kind = "APIError"

\* The positions of the batch whose query() has not returned yet.
BatchInFlight ==
  {k \in DOMAIN batch.items : calls[batch.items[k]].pc # "done"}

\* C11: during batchQuery(list, c) every query of the chunks before the
\* current one has returned, so at most c queries of the batch, and at most c
\* attempts, are in flight at any moment.
BatchChunksRunInTurn ==
  /\ \A k \in DOMAIN batch.items : k <= batch.i => calls[batch.items[k]].pc = "done"
  /\ Cardinality(BatchInFlight) <= batch.concurrency
  /\ Cardinality(activeRequests) <= batch.concurrency

\* C11, witness: with concurrency 2 the first chunk had two attempts in flight
\* and has settled, one query by a failure, and the third item's attempt is in
\* flight alone.
LaterChunkInFlight ==
  /\ batch.pc = "running"
  /\ batch.concurrency = 2
  /\ batch.i = 2
  /\ Len(batch.items) = 3
  /\ calls[batch.items[1]].attempts > 0
  /\ calls[batch.items[1]].result.kind = "APIError"
  /\ calls[batch.items[2]].attempts > 0
  /\ calls[batch.items[3]].pc = "request"
  /\ BatchInFlight = {3}

\* The attempts the in-flight table tracks.
TrackedCalls ==
  {c \in DOMAIN calls : calls[c].pc = "request" /\ calls[c].attemptId \in activeRequests}

\* The step is a call of the client's method `op`.
Called(op) == lastOp'.n # lastOp.n /\ lastOp'.op = op

\* C12: cancelAllRequests() cancels the token of every tracked attempt,
\* returns the number of entries the in-flight table held when it was called
\* and leaves the table empty; on an empty table it returns 0 and changes
\* nothing.
CancelAllReturnsTableSize ==
  [][Called("cancelAllRequests") =>
       /\ lastOp'.returned = Cardinality(activeRequests)
       /\ activeRequests' = {}
       /\ \A c \in TrackedCalls : calls'[c].cancelled # ""
       /\ activeRequests = {} =>
            /\ lastOp'.returned = 0
            /\ UNCHANGED <<config, cacheCleanupInterval, cache, nextId, calls, batch, parsed>>]_vars

\* C12, witness: cancelAllRequests() returned 2, the table is empty and the
\* two requests it cancelled have not rejected yet.
CancelledTwoRequests ==
  /\ lastOp.op = "cancelAllRequests"
  /\ lastOp.returned = 2
  /\ activeRequests = {}
  /\ Len(calls) = 2
  /\ \A c \in DOMAIN calls :
       calls[c].pc = "request" /\ calls[c].cancelled = "cancelAllRequests"

\* C13: an attempt cancelled by the call's abort signal is the last attempt of
\* its logical call, and once it has rejected its id is no longer in the
\* in-flight table.
AbortedCallMakesNoFurtherAttempt ==
  \A c \in DOMAIN calls :
    /\ \A k \in DOMAIN calls[c].history :
         calls[c].history[k] = CancelledBySignal => calls[c].attempts = k
    /\ (calls[c].cancelled = "abortSignal" /\ calls[c].pc # "request") =>
         calls[c].attemptId \notin activeRequests

\* C14: destroy() leaves the sweep off, the in-flight table empty and the
\* cache empty, having cancelled every tracked attempt, and raises no error;
\* called in that state it changes nothing.
DestroyTearsDown ==
  [][Called("destroy") =>
       /\ ~cacheCleanupInterval'
       /\ activeRequests' = {}
       /\ cache' = EmptyCache
       /\ ~lastOp'.threw
       /\ \A c \in TrackedCalls : calls'[c].cancelled # ""
       /\ (~cacheCleanupInterval /\ activeRequests = {} /\ cache = EmptyCache) =>
            UNCHANGED <<config, cacheCleanupInterval, cache, activeRequests, nextId,
                        calls, batch, parsed>>]_vars

\* C14, witness: destroy() was called twice in a row; the first call cancelled
\* a request, which has not rejected yet, and the client is torn down.
DestroyedTwice ==
  /\ lastOp.op = "destroy"
  /\ lastOp.prev = "destroy"
  /\ \E c \in DOMAIN calls :
       calls[c].pc = "request" /\ calls[c].cancelled = "cancelAllRequests"
  /\ \E c \in DOMAIN calls : calls[c].result.kind = "ok"
  /\ ~cacheCleanupInterval
  /\ activeRequests = {}
  /\ cache = EmptyCache

\* The value of `key` in an object kept as its entries.
ObjectGet(obj, key) == {obj[i][2] : i \in {j \in DOMAIN obj : obj[j][1] = key}}

\* An option value as it is sent: an array as its items joined with commas.
Flattened(value) ==
  IF value.t = "array" THEN StringValue(join(value.items, ",")) ELSE value

\* C15: every request sent carries q equal to the raw query string, type equal
\* to the classified type, and every option of the options object, the schema's
\* or not, under its key, an array as its items joined with commas.
RequestCarriesQueryAndType ==
  \A c \in DOMAIN calls :
    calls[c].attempts > 0 =>
      /\ ObjectGet(calls[c].params, "q") = {StringValue(Str(calls[c].query))}
      /\ ObjectGet(calls[c].params, "type")
           = {StringValue(calls[c].parsedQuery[1].type)}
      /\ \A i \in DOMAIN calls[c].options :
           calls[c].options[i][1] \notin {"q", "type"} =>
             ObjectGet(calls[c].params, calls[c].options[i][1])
               = {Flattened(calls[c].options[i][2])}

\* C16: no two query() calls of the client return success envelopes with the
\* same id, a call served from the cache included.
EnvelopeIdsUnique ==
  \A c1, c2 \in DOMAIN calls :
    (c1 # c2 /\ calls[c1].result.kind = "ok" /\ calls[c2].result.kind = "ok") =>
      calls[c1].result.envelope[1].id # calls[c2].result.envelope[1].id

\* The message of a failure: the server's error message if there is one, else
\* the transport error's message, else "Network error".
FailureMessage(error) ==
  IF error.serverError # "" THEN error.serverError
  ELSE IF error.message # "" THEN error.message
  ELSE "Network error"

\* C17: a query() whose logical call failed, by exhausting its attempts or by
\* a failure that is not retried, returns an APIError with the message of the
\* last failure observed.
FailedCallCarriesLastMessage ==
  \A c \in DOMAIN calls :
    ( /\ calls[c].pc = "done"
      /\ calls[c].lastError # <<>>
      /\ calls[c].responseData # <<>>
      /\ calls[c].responseData[1].isError ) =>
      calls[c].result = APIError(FailureMessage(calls[c].lastError[1]))

\* A direct parseQuery call that returned a classified query.
Classified == parsed.called /\ ~parsed.threw

\* All the records of the index table whose chapter is N, in the table's order.
ChapterRecords(N) == SelectSeq(VerseIndices, LAMBDA i : i.chapter = N)

\* C18: for every N in 1..114, parseQuery("N") and parseQuery("chapter:N")
\* are valid of type chapter, and the indices of each are all the records of
\* the index table whose chapter is N, in the table's order (so the two
\* calls yield the same indices).
ChapterNumberClassified ==
  \A N \in 1..LastChapter :
    (Classified /\ parsed.query \in {NumToChars(N), ChapterColon \o NumToChars(N)}) =>
      /\ parsed.result[1].valid
      /\ parsed.result[1].type = "chapter"
      /\ parsed.result[1].indices = ChapterRecords(N)
      /\ parsed.result[1].indices # <<>>

LastChapterByPrefixClassified ==
  /\ Classified
  /\ parsed.query = ChapterColon \o NumToChars(LastChapter)
  /\ parsed.result[1].type = "chapter"
  /\ Len(parsed.result[1].indices) = VersesPerChapter
  /\ \A k \in DOMAIN parsed.result[1].indices :
       parsed.result[1].indices[k].chapter = LastChapter

\* The text is a decimal integer of 1..LastChapter, nothing else.
IsChapterNumber(s) == s # <<>> /\ AllDigits(s) /\ DigitsValue(s) \in 1..LastChapter

\* A bare integer in [1,114], or exactly chapter:<N> with N in [1,114].
IsChapterForm(query) ==
  \/ IsChapterNumber(query)
  \/ /\ startsWith(query, ChapterColon)
     /\ IsChapterNumber(SubSeq(query, Len(ChapterColon) + 1, Len(query)))

\* C19: parseQuery returns type chapter only for a bare integer in [1,114]
\* or for exactly chapter:<N> with N in [1,114]; a query with further text
\* after chapter:<N>, such as "chapter:1 mercy", is not classified as chapter.
ChapterTypeOnlyForChapterForms ==
  (Classified /\ parsed.result[1].valid /\ parsed.result[1].type = "chapter")
    => IsChapterForm(parsed.query)

\* C20: for every record of the index table, parseQuery of its rendering
\* "{chapter}:{verse}" is valid of type verse and its indices hold exactly
\* that record; a query that differs from every rendering (leading zeros,
\* extra white space) is never classified as verse.
VerseRenderingClassified ==
  Classified =>
    /\ \A k \in DOMAIN VerseIndices :
         parsed.query = VerseId(VerseIndices[k]) =>
           /\ parsed.result[1].valid
           /\ parsed.result[1].type = "verse"
           /\ parsed.result[1].indices = <<VerseIndices[k]>>
    /\ (parsed.result[1].valid /\ parsed.result[1].type = "verse") =>
         \E k \in DOMAIN VerseIndices : parsed.query = VerseId(VerseIndices[k])

LastVerseClassified ==
  /\ Classified
  /\ parsed.query = VerseId(VerseIndices[Len(VerseIndices)])
  /\ parsed.result[1].type = "verse"
  /\ parsed.result[1].indices = <<VerseIndices[Len(VerseIndices)]>>

\* The records of chapter c whose verse lies in start..end, in the table's order.
RangeRecords(c, start, end) ==
  SelectSeq(VerseIndices, LAMBDA i : i.chapter = c /\ i.verse \in start..end)

\* C21: for a query <chapter>:<start>-<end>, parseQuery yields type
\* verse_range with exactly the records of that chapter whose verse lies in
\* [start, end], in the table's order; when no record matches, the range
\* rule does not apply and the later rules decide (they reject the query).
VerseRangeClassified ==
  \A c \in RangeChapters, start \in RangeVerses, end \in RangeVerses :
    (Classified /\ parsed.query = RangeText(c, start, end)) =>
      IF RangeRecords(c, start, end) # <<>>
        THEN /\ parsed.result[1].valid
             /\ parsed.result[1].type = "verse_range"
             /\ parsed.result[1].indices = RangeRecords(c, start, end)
        ELSE /\ parsed.result[1].type # "verse_range"
             /\ parsed.result[1] = InvalidQuery("Invalid query")

FirstThreeVersesClassified ==
  /\ Classified
  /\ parsed.query = <<"1", ":", "1", "-", "3">>
  /\ parsed.result[1].type = "verse_range"
  /\ Len(parsed.result[1].indices) = 3
  /\ \A k \in 1..3 : /\ parsed.result[1].indices[k].chapter = 1
                      /\ parsed.result[1].indices[k].verse = k

\* What one component of a comma-separated query resolves to: its single
\* verse, else the records of its range, else nothing.
Resolved(component) ==
  IF isVerseType(trim(component)) # <<>> THEN isVerseType(trim(component))
  ELSE isVerseRangeType(trim(component))

\* The records the components resolve to, one component after the other.
RECURSIVE ResolvedInOrder(_)
ResolvedInOrder(components) ==
  IF components = <<>> THEN <<>>
  ELSE ResolvedInOrder(SubSeq(components, 1, Len(components) - 1))
         \o Resolved(components[Len(components)])

EarlierRuleAccepts(query) ==
  isChapterType(query) # <<>> \/ isVerseType(query) # <<>> \/ isVerseRangeType(query) # <<>>

\* C22: for a query with a comma that no earlier rule accepts, parseQuery
\* resolves every trimmed component as a verse or a range and answers type
\* multiple_verses with the resolved records in the order of the components
\* (not of the table), skipping the components that resolve to nothing; it
\* does not answer multiple_verses only when no component resolved.
MultipleVersesClassified ==
  (Classified /\ includes(parsed.query, <<",">>) /\ ~EarlierRuleAccepts(parsed.query)) =>
    IF ResolvedInOrder(split(parsed.query, <<",">>)) # <<>>
      THEN /\ parsed.result[1].valid
           /\ parsed.result[1].type = "multiple_verses"
           /\ parsed.result[1].indices = ResolvedInOrder(split(parsed.query, <<",">>))
      ELSE parsed.result[1].type # "multiple_verses"

LaterVerseListedFirst ==
  /\ Classified
  /\ parsed.query = <<"3", ":", "2", ",", "1", ":", "1", ",", "2", ":", "3">>
  /\ parsed.result[1].type = "multiple_verses"
  /\ [k \in 1..3 |-> VerseId(parsed.result[1].indices[k])]
       = << <<"3", ":", "2">>, <<"1", ":", "1">>, <<"2", ":", "3">> >>
  /\ parsed.result[1].indices[1].verse_index > parsed.result[1].indices[2].verse_index

\* The rules in the fixed order, each with the type it answers.
RuleAccepts(type, query) ==
  CASE type = "chapter" -> isChapterType(query) # <<>>
    [] type = "verse" -> isVerseType(query) # <<>>
    [] type = "verse_range" -> isVerseRangeType(query) # <<>>
    [] type = "multiple_verses" -> isMultipleVersesType(query) # <<>>
    [] type = "random_chapter" -> isRandomChapterType(query)
    [] type = "random_verse" -> isRandomVerseType(query)
    [] type = "search" -> isSearchType(query)

RuleOrder ==
  <<"chapter", "verse", "verse_range", "multiple_verses", "random_chapter",
    "random_verse", "search">>

AcceptingRules(query) == {k \in DOMAIN RuleOrder : RuleAccepts(RuleOrder[k], query)}

\* C23: parseQuery answers the type of the first rule, in the order chapter,
\* verse, verse range, multiple verses, random chapter, random verse, search,
\* that accepts the query: a query holding "random", "chapter" and "verse" is
\* random_chapter, "random-verse" is random_verse and not search; when no
\* rule accepts, as for the empty string, it answers {valid: false, error:
\* "Invalid query"}.
FirstAcceptingRuleDecides ==
  Classified =>
    /\ IF AcceptingRules(parsed.query) # {}
         THEN /\ parsed.result[1].valid
              /\ parsed.result[1].type = RuleOrder[Min(AcceptingRules(parsed.query))]
         ELSE parsed.result[1] = InvalidQuery("Invalid query")
    /\ parsed.query = RandomChapterVerse => parsed.result[1].type = "random_chapter"
    /\ parsed.query = RandomVerseSentinel => parsed.result[1].type = "random_verse"
    /\ parsed.query = <<>> => parsed.result[1] = InvalidQuery("Invalid query")

RandomChapterBeforeRandomVerse ==
  /\ Classified
  /\ parsed.query = RandomChapterVerse
  /\ {5, 6, 7} \subseteq AcceptingRules(parsed.query)
  /\ parsed.result[1].type = "random_chapter"

\* C24: parseQuery is total: for every query and every options value, the
\* options that fail validation included, it returns a ParsedQuery and never
\* throws.
ParseQueryAlwaysReturns ==
  parsed.called => (~parsed.threw /\ parsed.result # <<>>)

ReferenceTypes == {"verse", "verse_range", "multiple_verses", "chapter"}

ServerResolvedTypes == {"search", "random_chapter", "random_verse"}

\* C25: in every valid result of parseQuery, indices is non-empty exactly
\* when the type is verse, verse_range, multiple_verses or chapter, it is
\* empty when the type is search, random_chapter or random_verse, and every
\* record in it is a record of the index table.
IndicesOnlyForReferences ==
  (Classified /\ parsed.result[1].valid) =>
    /\ parsed.result[1].type \in ReferenceTypes \cup ServerResolvedTypes
    /\ parsed.result[1].indices # <<>> <=> parsed.result[1].type \in ReferenceTypes
    /\ parsed.result[1].type \in ServerResolvedTypes => parsed.result[1].indices = <<>>
    /\ \A k \in DOMAIN parsed.result[1].indices :
         /\ parsed.result[1].indices[k].verse_index \in DOMAIN VerseIndices
         /\ VerseIndices[parsed.result[1].indices[k].verse_index]
              = parsed.result[1].indices[k]

ListWithUnknownComponentClassified ==
  /\ Classified
  /\ parsed.query = <<"1", ":", "1", ",", "x", ",", "2", ":", "2">>
  /\ parsed.result[1].valid
  /\ parsed.result[1].type \in ReferenceTypes
  /\ Len(parsed.result[1].indices) = 2

\* The mark the history keeps of a failure that shouldRetry retries.
RetryableMark(mark) == mark = 0 \/ mark >= 500 \/ mark = 408 \/ mark = 429

\* A step of one logical call, from call record `old` to call record `new`.
SequentialStep(old, new) ==
  \* a further attempt starts only from the backoff wait that followed the
  \* failure of the attempt before it, once retryDelayMs * 2^k has passed
  /\ (new.attempts > old.attempts /\ old.attempts >= 1) =>
       /\ new.attempts = old.attempts + 1
       /\ old.pc = "delay"
       /\ Len(old.history) = old.attempts
       /\ old.history[old.attempts] # 200
       /\ now >= old.failedAt + config.retryDelayMs * (2 ^ (old.attempts - 1))
  \* a wait begins only at a retryable failure of an attempt that is not the last
  /\ (new.pc = "delay" /\ old.pc # "delay") =>
       /\ old.pc = "request"
       /\ new.attempts = old.attempts
       /\ new.attempts <= config.retryCount
       /\ RetryableMark(new.history[Len(new.history)])
  \* a wait ends in the next attempt, never in the return of the call
  /\ old.pc = "delay" => new.pc \in {"delay", "request"}
  \* the call that fails returns at the instant of its last failure
  /\ (new.pc = "done" /\ old.pc = "request" /\ new.result.kind = "APIError"
        /\ Len(new.history) = new.attempts /\ new.history[new.attempts] # 200) =>
       /\ new.finishedAt = new.failedAt
       /\ new.finishedAt = now

\* C26: within one logical call the attempts are strictly sequential: attempt
\* k+1 starts only after attempt k has failed and a wait of retryDelayMs * 2^k
\* has passed; no wait follows the last permitted attempt or a failure that is
\* not retried: the error is returned at once.
AttemptsAreSequential ==
  [][\A c \in DOMAIN calls : SequentialStep(calls[c], calls'[c])]_vars

FailedAfterThreeAttemptsAtTheEarliest ==
  /\ Len(calls) = 1
  /\ config.retryCount = 2
  /\ calls[1].pc = "done"
  /\ calls[1].result.kind = "APIError"
  /\ calls[1].attempts = 3
  /\ calls[1].waited = config.retryDelayMs * 3
  /\ calls[1].finishedAt = config.retryDelayMs * 3

\* The logical calls with an attempt in flight.
InRequest == {c \in DOMAIN calls : calls[c].pc = "request"}

\* C27: the in-flight table never leaks: it holds only ids of attempts in
\* flight, at most one per logical call and a different one for each; the id
\* of an attempt is in the table from its start until it settles or is
\* cancelled by the client; a call in its backoff wait or returned has no id
\* in the table; so when no logical call is in progress the table is empty,
\* under any interleaving of queries, cancelRequest and cancelAllRequests.
InFlightTableNeverLeaks ==
  /\ activeRequests \subseteq {calls[c].attemptId : c \in InRequest}
  /\ \A c, d \in InRequest : calls[c].attemptId = calls[d].attemptId => c = d
  /\ \A c \in InRequest : calls[c].cancelled = "" => calls[c].attemptId \in activeRequests
  /\ \A c \in DOMAIN calls \ InRequest : calls[c].attemptId \notin activeRequests
  /\ InRequest = {} => activeRequests = {}

AllReturnedAfterCancellations ==
  /\ Len(calls) = 2
  /\ \A c \in DOMAIN calls : calls[c].pc = "done" /\ calls[c].attempts = 2
  /\ lastOp.op = "cancelRequest"
  /\ lastOp.returned = 1
  /\ lastOp.prev = "cancelAllRequests"
  /\ nextId > 4
  /\ activeRequests = {}

\* The call is allowed to touch the cache.
CachingCall(call) == config.enableCaching /\ ~call.skipCache

\* The calls that start or move in the step.
Stepping == {c \in DOMAIN calls' : c \notin DOMAIN calls \/ calls'[c] # calls[c]}

\* The calls that return in the step.
Returning == {c \in Stepping : calls'[c].pc = "done"}

\* The keys that hold a new or another entry after the step.
Written == {key \in DOMAIN cache' : key \notin DOMAIN cache \/ cache'[key] # cache[key]}

\* C28: every cache entry holds the success envelope of a query that
\* completed with a non-empty result; a query that returns an APIError adds
\* or changes no entry; a query run with caching disabled or with skipCache
\* set leaves the cache as it is: it neither evicts by reading nor writes.
CacheHoldsOnlySuccesses ==
  [][/\ \A key \in Written :
          \E c \in Returning :
            /\ CachingCall(calls'[c])
            /\ calls'[c].result.kind = "ok"
            /\ calls'[c].attempts > 0
            /\ key = generateCacheKey(calls'[c].query, calls'[c].options)
            /\ cache'[key].data = calls'[c].result.envelope[1]
            /\ cache'[key].data.response # <<>>
     /\ \A key \in DOMAIN cache' :
          /\ cache'[key].data.response # <<>>
          /\ \E c \in DOMAIN calls' :
               /\ calls'[c].result.kind = "ok"
               /\ calls'[c].result.envelope[1] = cache'[key].data
     /\ (\A c \in Returning : calls'[c].result.kind = "APIError") => Written = {}
     /\ (Stepping # {} /\ \A c \in Stepping : ~CachingCall(calls'[c])) => cache' = cache
    ]_vars

SkipCacheWentPastStoredEntry ==
  /\ Len(calls) = 2
  /\ StoredItsResult(calls[1])
  /\ calls[2].skipCache
  /\ calls[2].query = calls[1].query
  /\ calls[2].options = calls[1].options
  /\ calls[2].pc = "done"
  /\ calls[2].result.kind = "ok"
  /\ calls[2].attempts = 1
  /\ calls[2].result # calls[1].result
  /\ generateCacheKey(calls[1].query, calls[1].options) \in DOMAIN cache
  /\ cache[generateCacheKey(calls[1].query, calls[1].options)].data
       = calls[1].result.envelope[1]

\* The step is a sweep.
Swept == lastOp' # lastOp /\ lastOp'.op = "cleanupCache"

\* The entry is younger than its maxAge at time t.
YoungerThanMaxAge(entry, t) == t - entry.timestamp < entry.maxAge

\* C29: right after cleanupCache has run at time t, every entry still in the
\* cache is one getFromCache would return at time t: no entry whose age has
\* reached its maxAge survives.
SweepLeavesOnlyReadableEntries ==
  [][Swept =>
       \A key \in DOMAIN cache' :
         /\ YoungerThanMaxAge(cache'[key], now)
         /\ getFromCache(cache', key, now) # <<>>]_vars

\* The sweep removes no entry that getFromCache would still have returned.
SweepRemovesOnlyExpiredEntries ==
  [][Swept =>
       \A key \in DOMAIN cache \ DOMAIN cache' :
         getFromCache(cache, key, now) = <<>>]_vars

\* C30: once destroy() has returned, and as long as no new query is started,
\* the cache and the in-flight table stay empty, also when logical calls were
\* in an attempt or in a backoff wait when destroy() was called: none of them
\* registers a new attempt or writes a cache entry afterwards.
StaysEmptyAfterDestroy ==
  [][(lastOp.op = "destroy" /\ lastOp' = lastOp /\ Len(calls') = lastOp.calls) =>
       (activeRequests' = {} /\ cache' = EmptyCache)]_vars


================================================================
